---- MODULE Spec2Model ----
(***************************************************************************)
(* Model of src/app.py: the recursive EV-adoption forecast of one county   *)
(* (lines 55-139) followed by the multi-county comparison (lines 141-231). *)
(*                                                                         *)
(* Numbers.  Raw counts of the dataset and rounded predictions are plain   *)
(* integers.  Predictions and the contents of the two rolling windows are  *)
(* reals; they are kept exactly as fixed-point integers in units of        *)
(* 1/Scale (the count 3 is the window value 3 * Scale).  Quotients         *)
(* (rolling mean, percentage changes, slope, growth) are kept as exact     *)
(* fractions [num, den]; a fraction with den = 0 is the inf/nan a float    *)
(* division by zero produces.                                              *)
(***************************************************************************)
EXTENDS Integers, Sequences, FiniteSets, TLC

\* ---------------------------------------------------------------- bounds
MaxHist == 7        \* longest history of the one-county datasets
MaxHorizon == 3     \* horizons 1..MaxHorizon are run besides the program's own
Scale == 4          \* fixed-point denominator of predictions and window values

\* ------------------------------------------------------ program constants
ProgramHorizon == 36    \* forecast_horizon = 36
WindowLen == 6          \* [-6:]
MaxCompare == 3         \* len(multi_counties) > 3

\* --------------------------------------------------------------- helpers
Last(s) == s[Len(s)]

\* Python's s[-n:]: the last n elements, all of s when it is shorter.
LastN(s, n) == IF Len(s) <= n THEN s ELSE SubSeq(s, Len(s) - n + 1, Len(s))

\* np.cumsum / Series.cumsum: running totals of a sequence of numbers.
RECURSIVE CumSum(_)
CumSum(s) ==
    IF Len(s) = 0 THEN << >>
    ELSE LET front == CumSum(SubSeq(s, 1, Len(s) - 1))
         IN  Append(front, (IF Len(front) = 0 THEN 0 ELSE Last(front)) + Last(s))

Frac(n, d) == [num |-> n, den |-> d]
Zero == Frac(0, 1)

\* Float division a / b: a quotient, or inf/nan (den = 0) when b is zero.
Div(a, b) == Frac(a, b)

\* math.floor on a float.  x is in units of 1/Scale, the result is a plain
\* integer.
floor(x) == x \div Scale

\* round(pred) on a float: nearest integer, ties to the even neighbour.
\* x is in units of 1/Scale, the result is a plain integer.
round(x) ==
    LET q == x \div Scale
        r == x % Scale
    IN  IF 2 * r < Scale THEN q
        ELSE IF 2 * r > Scale THEN q + 1
        ELSE IF q % 2 = 0 THEN q ELSE q + 1

\* ----------------------------------------------------------------- dates
Date(y, m, d) == [y |-> y, m |-> m, d |-> d]

IsLeap(y) == (y % 4 = 0 /\ y % 100 # 0) \/ y % 400 = 0

DaysInMonth(y, m) ==
    IF m = 2 THEN (IF IsLeap(y) THEN 29 ELSE 28)
    ELSE IF m \in {4, 6, 9, 11} THEN 30 ELSE 31

\* date + pd.DateOffset(months=n): n calendar months later, the day of the
\* month kept unless the target month is shorter.
DateOffset(date, n) ==
    LET idx == date.y * 12 + (date.m - 1) + n
        y   == idx \div 12
        m   == (idx % 12) + 1
        dim == DaysInMonth(y, m)
    IN  Date(y, m, IF date.d < dim THEN date.d ELSE dim)

DateLess(a, b) ==
    \/ a.y < b.y
    \/ a.y = b.y /\ a.m < b.m
    \/ a.y = b.y /\ a.m = b.m /\ a.d < b.d

\* Series.max() of a column of integers.
SeqMax(s) == CHOOSE x \in {s[k] : k \in DOMAIN s} : \A k \in DOMAIN s : s[k] <= x

\* Series.max() of a Date column.
DateMax(s) ==
    CHOOSE x \in {s[k] : k \in DOMAIN s} :
        \A k \in DOMAIN s : s[k] = x \/ DateLess(s[k], x)

\* ------------------------------------------------------- feature engineering
\* lag1, lag2, lag3 = w[-1], w[-2], w[-3]: an IndexError when w holds fewer
\* than three values.
Lags_padded(w) ==
    [raised |-> FALSE,
     lag1 |-> IF Len(w) >= 1 THEN w[Len(w)] ELSE 0,
     lag2 |-> IF Len(w) >= 2 THEN w[Len(w) - 1] ELSE 0,
     lag3 |-> IF Len(w) >= 3 THEN w[Len(w) - 2] ELSE 0]
Lags(w) ==
    IF Len(w) >= 3
    THEN [raised |-> FALSE, lag1 |-> w[Len(w)], lag2 |-> w[Len(w) - 1],
          lag3 |-> w[Len(w) - 2]]
    ELSE [raised |-> TRUE, lag1 |-> 0, lag2 |-> 0, lag3 |-> 0]

\* np.mean([lag1, lag2, lag3])
RollMean(lag1, lag2, lag3) == Frac(lag1 + lag2 + lag3, 3)

\* (lag1 - lagk) / lagk if lagk != 0 else 0
PctChange_unguarded(lag1, lagk) == Div(lag1 - lagk, lagk)
PctChange(lag1, lagk) == IF lagk # 0 THEN Div(lag1 - lagk, lagk) ELSE Zero

\* np.polyfit(range(6), y, 1)[0] for six points: the least-squares slope
\* sum((x - 2.5) * y_x) / 17.5 = sum((2x - 5) * y_x) / 35, x = 0..5.
Polyfit1(y) ==
    Frac(5 * y[6] + 3 * y[5] + y[4] - y[3] - 3 * y[2] - 5 * y[1], 35)

\* np.polyfit(range(6), cum[-6:], 1)[0] if len(cum) >= 6 else 0
GrowthSlope(cum) ==
    IF Len(cum) >= WindowLen THEN Polyfit1(LastN(cum, WindowLen)) ELSE Zero

\* The row handed to the model (the dict of lines 83-93 / 170-180).
FeatureRow(months, code, w, cum) ==
    LET l == Lags(w)
    IN  [months_since_start    |-> months,
         county_encoded        |-> code,
         ev_total_lag1         |-> l.lag1,
         ev_total_lag2         |-> l.lag2,
         ev_total_lag3         |-> l.lag3,
         ev_total_roll_mean_3  |-> RollMean(l.lag1, l.lag2, l.lag3),
         ev_total_pct_change_1 |-> PctChange(l.lag1, l.lag2),
         ev_total_pct_change_3 |-> PctChange(l.lag1, l.lag3),
         ev_growth_slope       |-> GrowthSlope(cum)]

NoRow ==
    [months_since_start |-> 0, county_encoded |-> 0, ev_total_lag1 |-> 0,
     ev_total_lag2 |-> 0, ev_total_lag3 |-> 0, ev_total_roll_mean_3 |-> Zero,
     ev_total_pct_change_1 |-> Zero, ev_total_pct_change_3 |-> Zero,
     ev_growth_slope |-> Zero]

\* ------------------------------------------------------------- the predictor
\* model.predict(row)[0].  The pickled regressor is opaque to app.py: all the
\* script relies on is that it maps one row to one real.  Each name below is
\* one deterministic regressor; between them every column of the row decides
\* some prediction, and predictions take zero, negative and fractional values.
Models == {"flat", "drift", "mean", "trend", "swing"}

Sign(f) ==
    IF f.num = 0 \/ f.den = 0 THEN 0
    ELSE IF (f.num > 0) = (f.den > 0) THEN 1 ELSE -1

Predict(m, r) ==
    CASE m = "flat"  -> 0
      [] m = "drift" -> r.ev_total_lag1 + 1
      [] m = "mean"  -> r.ev_total_roll_mean_3.num \div r.ev_total_roll_mean_3.den
      [] m = "trend" -> (r.ev_growth_slope.num \div r.ev_growth_slope.den)
                        + r.months_since_start + 2 * r.county_encoded + 1
      [] m = "swing" -> r.ev_total_lag3 - r.ev_total_lag2
                        + Sign(r.ev_total_pct_change_1)
                        + 2 * Sign(r.ev_total_pct_change_3)

\* --------------------------------------------------------------- the dataset
\* preprocessed_ev_data.csv restricted to one county: its rows in date order,
\* column by column.
Table(first, evs, code) ==
    [Date               |-> [k \in 1..Len(evs) |-> DateOffset(first, k - 1)],
     EV                 |-> evs,
     months_since_start |-> [k \in 1..Len(evs) |-> k - 1],
     county_encoded     |-> code]

RawValues == {0, 3}
Histories == UNION {[1..n -> RawValues] : n \in 1..MaxHist}

\* Datasets of one county, with every history up to MaxHist months.
OneCounty == {[c \in {"King"} |-> Table(Date(2023, 10, 31), h, 1)] : h \in Histories}

\* A dataset of four counties whose histories differ in length: shorter than
\* the window, longer than the window, all zero, and too short for three lags.
FourCounties ==
    [c \in {"Clark", "King", "Pierce", "Yakima"} |->
        CASE c = "Clark"  -> Table(Date(2024, 9, 30), <<0, 0, 0, 0>>, 0)
          [] c = "King"   -> Table(Date(2024, 10, 31), <<100, 120, 150>>, 1)
          [] c = "Pierce" -> Table(Date(2024, 5, 31), <<5, 0, 0, 3, 4, 0, 2, 6>>, 2)
          [] c = "Yakima" -> Table(Date(2024, 11, 30), <<7, 9>>, 3)]

\* st.multiselect: any choice of distinct counties, in the order picked.
Selections(S) ==
    UNION {{s \in [1..n -> S] : \A a, b \in 1..n : a # b => s[a] # s[b]} :
             n \in 0..Cardinality(S)}

\* ------------------------------------------------------------------- state
VARIABLES
    df,                 \* the loaded dataset, county -> table
    model,              \* the loaded regressor
    forecast_horizon,
    pc,                 \* position of the script
    county, county_code,
    historical_ev, cumulative_ev, months_since_start, latest_date,
    i, row, pred, future_rows,
    historical_cum, forecast_df, combined, summary,
    multi_counties, comparison_data,
    cty, cty_code, hist_ev, cum_ev, months_since, last_date, future_rows_cty,
    growth_summary,
    feature_log,        \* history: rows passed to the model by the current loop
    pred_log,           \* history: unrounded predictions of the current loop
    single_log,         \* history: feature_log, pred_log of the one-county loop
    cty_log,            \* history: per compared county, its rows and predictions
    alt_ev, alt_cum, alt_rows, alt_row
                        \* the one-county loop run again with another display step

inputs  == <<df, model, forecast_horizon>>
single  == <<county, county_code, historical_ev, cumulative_ev,
             months_since_start, latest_date, future_rows>>
outcome == <<historical_cum, forecast_df, combined, summary>>
multi   == <<cty, cty_code, hist_ev, cum_ev, months_since, last_date,
             future_rows_cty>>
alt     == <<alt_ev, alt_cum, alt_rows, alt_row>>
vars    == <<inputs, pc, single, i, row, pred, outcome, multi_counties,
             comparison_data, multi, growth_summary, feature_log, pred_log,
             single_log, cty_log, alt>>

NoDate == Date(0, 1, 1)

\* The display step of line 96 / 183, and the one the second run uses.
Display(x) == round(x)
DisplayAlt(x) == floor(x)

\* The value lines 97-99 / 184-186 append to the windows: the prediction as
\* the model returned it, not the value shown.
Chained_shown(p, shown) == shown * Scale
Chained(p, shown) == p

\* w.append(x); w = w[-6:]
Push_untrimmed(w, x) == Append(w, x)
Push(w, x) == LastN(Append(w, x), WindowLen)

\* latest_date + pd.DateOffset(months=i)
ForecastDate_prev(latest, n) == DateOffset(latest, n - 1)
ForecastDate(latest, n) == DateOffset(latest, n)

\* .values[-6:] of the raw column, as window values.
SeedWindow(evs) == [k \in 1..Len(LastN(evs, WindowLen)) |-> LastN(evs, WindowLen)[k] * Scale]

Init ==
    /\ \/ df \in OneCounty /\ forecast_horizon \in 1..MaxHorizon
       \/ df = FourCounties /\ forecast_horizon \in (1..MaxHorizon) \cup {ProgramHorizon}
    /\ model \in Models
    /\ pc = "select"
    /\ county = "" /\ county_code = 0
    /\ historical_ev = << >> /\ cumulative_ev = << >>
    /\ months_since_start = 0 /\ latest_date = NoDate
    /\ i = 0 /\ row = NoRow /\ pred = 0 /\ future_rows = << >>
    /\ historical_cum = << >> /\ forecast_df = << >> /\ combined = << >>
    /\ summary = [available |-> FALSE, growth_pct |-> Zero]
    /\ multi_counties = << >> /\ comparison_data = << >>
    /\ cty = "" /\ cty_code = 0 /\ hist_ev = << >> /\ cum_ev = << >>
    /\ months_since = 0 /\ last_date = NoDate /\ future_rows_cty = << >>
    /\ growth_summary = << >>
    /\ feature_log = << >> /\ pred_log = << >>
    /\ single_log = [features |-> << >>, preds |-> << >>]
    /\ cty_log = << >>
    /\ alt_ev = << >> /\ alt_cum = << >> /\ alt_rows = << >> /\ alt_row = NoRow

\* ------------------------------------------------- one county, lines 55-139
\* Lines 55-72: the county picked in the selectbox, its rows, the seeding of
\* the two windows.
SelectCounty ==
    /\ pc = "select"
    /\ \E c \in DOMAIN df :
        LET county_df == df[c]
            seed      == SeedWindow(county_df.EV)
        IN  /\ county' = c
            /\ county_code' = county_df.county_encoded
            /\ historical_ev' = seed
            /\ cumulative_ev' = CumSum(seed)
            /\ months_since_start' = SeqMax(county_df.months_since_start)
            /\ latest_date' = DateMax(county_df.Date)
            /\ alt_ev' = seed
            /\ alt_cum' = CumSum(seed)
    /\ future_rows' = << >>
    /\ alt_rows' = << >>
    /\ pc' = "forecast"
    /\ UNCHANGED <<inputs, i, row, pred, outcome, multi_counties, comparison_data,
                   multi, growth_summary, feature_log, pred_log, single_log,
                   cty_log, alt_row>>

\* Lines 74-100, one iteration in which the model answers.
ForecastStep ==
    /\ pc = "forecast"
    /\ i < forecast_horizon
    /\ ~Lags(historical_ev).raised
    /\ LET n     == i + 1
           fdate == ForecastDate(latest_date, n)
           m     == months_since_start + 1
           r     == FeatureRow(m, county_code, historical_ev, cumulative_ev)
           p     == Predict(model, r)
           r2    == FeatureRow(m, county_code, alt_ev, alt_cum)
           p2    == Predict(model, r2)
       IN  /\ i' = n
           /\ months_since_start' = m
           /\ row' = r
           /\ pred' = p
           /\ future_rows' = Append(future_rows,
                                    [Date |-> fdate, Predicted |-> Display(p)])
           /\ historical_ev' = Push(historical_ev, Chained(p, Display(p)))
           /\ cumulative_ev' = Push(cumulative_ev,
                                    Last(cumulative_ev) + Chained(p, Display(p)))
           /\ feature_log' = Append(feature_log, r)
           /\ pred_log' = Append(pred_log, p)
           /\ alt_row' = r2
           /\ alt_rows' = Append(alt_rows,
                                 [Date |-> fdate, Predicted |-> DisplayAlt(p2)])
           /\ alt_ev' = Push(alt_ev, Chained(p2, DisplayAlt(p2)))
           /\ alt_cum' = Push(alt_cum, Last(alt_cum) + Chained(p2, DisplayAlt(p2)))
    /\ UNCHANGED <<inputs, pc, county, county_code, latest_date, outcome,
                   multi_counties, comparison_data, multi, growth_summary,
                   single_log, cty_log>>

\* Line 77 raising IndexError: fewer than three values in the window.  Lines
\* 75-76 have run; the script stops.
LagIndexError ==
    /\ pc = "forecast"
    /\ i < forecast_horizon
    /\ Lags(historical_ev).raised
    /\ i' = i + 1
    /\ months_since_start' = months_since_start + 1
    /\ pc' = "IndexError"
    /\ UNCHANGED <<inputs, county, county_code, historical_ev, cumulative_ev,
                   latest_date, future_rows, row, pred, outcome, multi_counties,
                   comparison_data, multi, growth_summary, feature_log, pred_log,
                   single_log, cty_log, alt>>

PredictRaises_partial ==
    /\ pc = "forecast"
    /\ i < forecast_horizon
    /\ ~Lags(historical_ev).raised
    /\ i' = i + 1
    /\ months_since_start' = months_since_start + 1
    /\ row' = FeatureRow(months_since_start + 1, county_code, historical_ev,
                         cumulative_ev)
    /\ historical_ev' = Push(historical_ev, 0)
    /\ cumulative_ev' = Push(cumulative_ev, Last(cumulative_ev))
    /\ pc' = "PredictError"
    /\ UNCHANGED <<inputs, county, county_code, latest_date, future_rows, pred,
                   outcome, multi_counties, comparison_data, multi, growth_summary,
                   feature_log, pred_log, single_log, cty_log, alt>>

\* Line 95 raising: model.predict fails.  Lines 75-93 have run, lines 96-100
\* have not; the exception is not caught and the script stops.
PredictRaises ==
    /\ pc = "forecast"
    /\ i < forecast_horizon
    /\ ~Lags(historical_ev).raised
    /\ i' = i + 1
    /\ months_since_start' = months_since_start + 1
    /\ row' = FeatureRow(months_since_start + 1, county_code, historical_ev,
                         cumulative_ev)
    /\ pc' = "PredictError"
    /\ UNCHANGED <<inputs, county, county_code, historical_ev, cumulative_ev,
                   latest_date, future_rows, pred, outcome, multi_counties,
                   comparison_data, multi, growth_summary, feature_log, pred_log,
                   single_log, cty_log, alt>>

\* Column 'Predicted EV Total' of a list of forecast rows.
Predicted(rows) == [k \in 1..Len(rows) |-> rows[k].Predicted]

\* rows['Predicted EV Total'].cumsum() + hist_cum['Cumulative EV'].iloc[-1]
Stitch_restart(rows, hist_cum) == CumSum(Predicted(rows))
Stitch(rows, hist_cum) ==
    [k \in 1..Len(rows) |-> CumSum(Predicted(rows))[k] + Last(hist_cum)]

\* ((forecast_total - hist_total) / hist_total) * 100
GrowthPct(fore, hist) == Div((fore - hist) * 100, hist)

\* Lines 134-139: the success line with the growth, or the warning.
Summary_unguarded(fore, hist) == [available |-> TRUE, growth_pct |-> GrowthPct(fore, hist)]
Summary(fore, hist) ==
    IF hist > 0
    THEN [available |-> TRUE, growth_pct |-> GrowthPct(fore, hist)]
    ELSE [available |-> FALSE, growth_pct |-> Zero]

\* Lines 102-139, once the loop has run forecast_horizon times.
Combine ==
    /\ pc = "forecast"
    /\ i = forecast_horizon
    /\ LET county_df == df[county]
           hcum      == CumSum(county_df.EV)
           fcum      == Stitch(future_rows, hcum)
       IN  /\ historical_cum' =
                  [k \in 1..Len(hcum) |->
                      [Date |-> county_df.Date[k], Cum |-> hcum[k], Source |-> "Historical"]]
           /\ forecast_df' =
                  [k \in 1..Len(fcum) |->
                      [Date |-> future_rows[k].Date,
                       Predicted |-> future_rows[k].Predicted,
                       Cum |-> fcum[k], Source |-> "Forecast"]]
           /\ combined' =
                  [k \in 1..Len(hcum) |->
                      [Date |-> county_df.Date[k], Cum |-> hcum[k], Source |-> "Historical"]]
                  \o [k \in 1..Len(fcum) |->
                      [Date |-> future_rows[k].Date, Cum |-> fcum[k], Source |-> "Forecast"]]
           /\ summary' = Summary(Last(fcum), Last(hcum))
    /\ single_log' = [features |-> feature_log, preds |-> pred_log]
    /\ pc' = "multiselect"
    /\ UNCHANGED <<inputs, single, i, row, pred, multi_counties, comparison_data,
                   multi, growth_summary, feature_log, pred_log, cty_log, alt>>

\* ------------------------------------------ county comparison, lines 141-231
\* Lines 145-148 with more than three counties picked: the error line, then
\* line 231.
SelectTooMany ==
    /\ pc = "multiselect"
    /\ \E sel \in Selections(DOMAIN df) :
        /\ Len(sel) > MaxCompare
        /\ multi_counties' = sel
    /\ pc' = "done"
    /\ UNCHANGED <<inputs, single, i, row, pred, outcome, comparison_data, multi,
                   growth_summary, feature_log, pred_log, single_log, cty_log, alt>>

\* Lines 145-150 with at most three counties picked.
SelectCompared ==
    /\ pc = "multiselect"
    /\ \E sel \in Selections(DOMAIN df) :
        /\ Len(sel) <= MaxCompare
        /\ multi_counties' = sel
    /\ comparison_data' = << >>
    /\ pc' = "next_cty"
    /\ UNCHANGED <<inputs, single, i, row, pred, outcome, multi, growth_summary,
                   feature_log, pred_log, single_log, cty_log, alt>>

\* What lines 153-160 set for county c.
CtySeed_carried(c) ==
    [code |-> df[c].county_encoded,
     hist |-> SeedWindow(df[c].EV),
     cum  |-> CumSum(SeedWindow(df[c].EV)),
     months |-> IF Len(comparison_data) = 0
                THEN SeqMax(df[c].months_since_start) ELSE months_since,
     last |-> DateMax(df[c].Date)]
CtySeed(c) ==
    [code |-> df[c].county_encoded,
     hist |-> SeedWindow(df[c].EV),
     cum  |-> CumSum(SeedWindow(df[c].EV)),
     months |-> SeqMax(df[c].months_since_start),
     last |-> DateMax(df[c].Date)]

\* Lines 152-160: the next county of the selection, its rows, its windows.
NextCounty ==
    /\ pc = "next_cty"
    /\ Len(comparison_data) < Len(multi_counties)
    /\ LET c == multi_counties[Len(comparison_data) + 1]
           s == CtySeed(c)
       IN  /\ cty' = c
           /\ cty_code' = s.code
           /\ hist_ev' = s.hist
           /\ cum_ev' = s.cum
           /\ months_since' = s.months
           /\ last_date' = s.last
    /\ future_rows_cty' = << >>
    /\ i' = 0
    /\ feature_log' = << >>
    /\ pred_log' = << >>
    /\ pc' = "cty_forecast"
    /\ UNCHANGED <<inputs, single, row, pred, outcome, multi_counties,
                   comparison_data, growth_summary, single_log, cty_log, alt>>

\* Lines 161-187, one iteration in which the model answers.
CtyForecastStep ==
    /\ pc = "cty_forecast"
    /\ i < forecast_horizon
    /\ ~Lags(hist_ev).raised
    /\ LET n     == i + 1
           fdate == ForecastDate(last_date, n)
           m     == months_since + 1
           r     == FeatureRow(m, cty_code, hist_ev, cum_ev)
           p     == Predict(model, r)
       IN  /\ i' = n
           /\ months_since' = m
           /\ row' = r
           /\ pred' = p
           /\ future_rows_cty' = Append(future_rows_cty,
                                        [Date |-> fdate, Predicted |-> Display(p)])
           /\ hist_ev' = Push(hist_ev, Chained(p, Display(p)))
           /\ cum_ev' = Push(cum_ev, Last(cum_ev) + Chained(p, Display(p)))
           /\ feature_log' = Append(feature_log, r)
           /\ pred_log' = Append(pred_log, p)
    /\ UNCHANGED <<inputs, pc, single, outcome, multi_counties, comparison_data,
                   cty, cty_code, last_date, growth_summary, single_log, cty_log,
                   alt>>

\* Line 164 raising IndexError.
CtyLagIndexError ==
    /\ pc = "cty_forecast"
    /\ i < forecast_horizon
    /\ Lags(hist_ev).raised
    /\ i' = i + 1
    /\ months_since' = months_since + 1
    /\ pc' = "IndexError"
    /\ UNCHANGED <<inputs, single, row, pred, outcome, multi_counties,
                   comparison_data, cty, cty_code, hist_ev, cum_ev, last_date,
                   future_rows_cty, growth_summary, feature_log, pred_log,
                   single_log, cty_log, alt>>

\* Line 182 raising: model.predict fails; the script stops.
CtyPredictRaises ==
    /\ pc = "cty_forecast"
    /\ i < forecast_horizon
    /\ ~Lags(hist_ev).raised
    /\ i' = i + 1
    /\ months_since' = months_since + 1
    /\ row' = FeatureRow(months_since + 1, cty_code, hist_ev, cum_ev)
    /\ pc' = "PredictError"
    /\ UNCHANGED <<inputs, single, pred, outcome, multi_counties, comparison_data,
                   cty, cty_code, hist_ev, cum_ev, last_date, future_rows_cty,
                   growth_summary, feature_log, pred_log, single_log, cty_log, alt>>

\* Lines 189-199: the county's historical and forecast cumulative series,
\* tagged with the county and appended to comparison_data.
CtyCombine ==
    /\ pc = "cty_forecast"
    /\ i = forecast_horizon
    /\ LET cty_df == df[cty]
           hcum   == CumSum(cty_df.EV)
           fcum   == Stitch(future_rows_cty, hcum)
           combined_cty ==
               [k \in 1..Len(hcum) |->
                   [Date |-> cty_df.Date[k], Cum |-> hcum[k], County |-> cty]]
               \o [k \in 1..Len(fcum) |->
                   [Date |-> future_rows_cty[k].Date, Cum |-> fcum[k], County |-> cty]]
       IN  /\ comparison_data' = Append(comparison_data, combined_cty)
           /\ cty_log' = Append(cty_log,
                                [County |-> cty, features |-> feature_log,
                                 preds |-> pred_log,
                                 rows |-> future_rows_cty])
    /\ pc' = "next_cty"
    /\ UNCHANGED <<inputs, single, i, row, pred, outcome, multi_counties, multi,
                   growth_summary, feature_log, pred_log, single_log, alt>>

\* pd.concat(frames, ignore_index=True)
RECURSIVE Concat(_)
Concat(frames) ==
    IF Len(frames) = 0 THEN << >> ELSE frames[1] \o Concat(Tail(frames))

\* len(cty_df) - forecast_horizon - 1
BaselineIndex_next(length, horizon) == length - horizon
BaselineIndex(length, horizon) == length - horizon - 1

\* Series.iloc[k]: position k from the front, or from the back when k < 0.
Iloc(s, k) == IF k >= 0 THEN s[k + 1] ELSE s[Len(s) + k + 1]

\* Lines 219-227 for one county of the selection.
GrowthEntry(comp_df, c) ==
    LET IsCty(r) == r.County = c
        cty_df   == SelectSeq(comp_df, IsCty)
        idx      == BaselineIndex(Len(cty_df), forecast_horizon)
        hist_val == Iloc(cty_df, idx).Cum
        fore_val == Last(cty_df).Cum
    IN  [County |-> c, baseline |-> idx, hist_val |-> hist_val, fore_val |-> fore_val,
         available |-> hist_val > 0,
         growth |-> IF hist_val > 0 THEN GrowthPct(fore_val, hist_val) ELSE Zero]

\* Lines 201-229 with something to compare: the merged frame and the growth
\* line of every picked county; then line 231.
GrowthSummary ==
    /\ pc = "next_cty"
    /\ Len(comparison_data) = Len(multi_counties)
    /\ Len(comparison_data) > 0
    /\ growth_summary' =
           [k \in 1..Len(multi_counties) |->
               GrowthEntry(Concat(comparison_data), multi_counties[k])]
    /\ pc' = "done"
    /\ UNCHANGED <<inputs, single, i, row, pred, outcome, multi_counties,
                   comparison_data, multi, feature_log, pred_log, single_log,
                   cty_log, alt>>

\* Line 201 with nothing picked; then line 231.
NothingCompared ==
    /\ pc = "next_cty"
    /\ Len(multi_counties) = 0
    /\ pc' = "done"
    /\ UNCHANGED <<inputs, single, i, row, pred, outcome, multi_counties,
                   comparison_data, multi, growth_summary, feature_log, pred_log,
                   single_log, cty_log, alt>>

Next ==
    \/ SelectCounty
    \/ ForecastStep
    \/ LagIndexError
    \/ PredictRaises
    \/ Combine
    \/ SelectTooMany
    \/ SelectCompared
    \/ NextCounty
    \/ CtyForecastStep
    \/ CtyLagIndexError
    \/ CtyPredictRaises
    \/ CtyCombine
    \/ GrowthSummary
    \/ NothingCompared

Spec == Init /\ [][Next]_vars

\* ================================================================== claims
SeqSum(s) == IF Len(s) = 0 THEN 0 ELSE Last(CumSum(s))

MonthIndex(d) == d.y * 12 + d.m - 1

\* The script is past line 114: the one-county forecast has been combined.
Combined == pc \in {"multiselect", "next_cty", "cty_forecast", "done"} \/
            (pc \in {"IndexError", "PredictError"} /\ multi_counties # << >>)

\* rows[k] is dated k calendar months after latest, for every k.
DatesFollow(rows, latest) ==
    \A k \in 1..Len(rows) :
        /\ MonthIndex(rows[k].Date) = MonthIndex(latest) + k
        /\ rows[k].Date.m \in 1..12
        /\ rows[k].Date.d =
              IF latest.d < DaysInMonth(rows[k].Date.y, rows[k].Date.m)
              THEN latest.d ELSE DaysInMonth(rows[k].Date.y, rows[k].Date.m)
        /\ DateLess(IF k = 1 THEN latest ELSE rows[k - 1].Date, rows[k].Date)

\* C1: a forecast loop that runs to its end has produced exactly
\* forecast_horizon points, in generation order; point k is dated k months
\* after the county's last historical date, so the dates increase strictly,
\* month by month, starting one month after that date.  While a loop runs it
\* has produced one point per iteration done.
C1_HorizonPointsMonthly ==
    /\ pc = "forecast" =>
          /\ Len(future_rows) = i
          /\ latest_date = Last(df[county].Date)
    /\ DatesFollow(future_rows, latest_date)
    /\ Combined =>
          /\ Len(future_rows) = forecast_horizon
          /\ Len(forecast_df) = forecast_horizon
          /\ \A k \in 1..Len(forecast_df) : forecast_df[k].Date = future_rows[k].Date
    /\ pc = "cty_forecast" =>
          /\ Len(future_rows_cty) = i
          /\ last_date = Last(df[cty].Date)
    /\ DatesFollow(future_rows_cty, last_date)
    /\ \A k \in 1..Len(cty_log) :
          /\ Len(cty_log[k].rows) = forecast_horizon
          /\ DatesFollow(cty_log[k].rows, Last(df[cty_log[k].County].Date))

C1_Witness ==
    /\ pc = "done"
    /\ forecast_horizon = ProgramHorizon
    /\ Len(forecast_df) = ProgramHorizon
    /\ Len(cty_log) = 3
    /\ \E k \in 1..Len(future_rows) : future_rows[k].Date.d # latest_date.d

\* The forecast half of a combined series of one compared county.
ForecastCum(k) ==
    LET n == Len(df[cty_log[k].County].EV)
    IN  [j \in 1..(Len(comparison_data[k]) - n) |-> comparison_data[k][n + j].Cum]

\* cum continues hist_total by the increments incr (all in units of 1/Scale).
Continues(cum, hist_total, incr) ==
    /\ Len(cum) = Len(incr)
    /\ \A k \in 1..Len(cum) :
          cum[k] * Scale = (IF k = 1 THEN hist_total ELSE cum[k - 1]) * Scale + incr[k]

\* C2 as stated: the forecast cumulative series is the historical final
\* cumulative value plus the running sum of the unrounded predictions.
C2_UnroundedStitching ==
    /\ Combined =>
          Continues([k \in 1..Len(forecast_df) |-> forecast_df[k].Cum],
                    SeqSum(df[county].EV), single_log.preds)
    /\ \A k \in 1..Len(cty_log) :
          Continues(ForecastCum(k), SeqSum(df[cty_log[k].County].EV), cty_log[k].preds)

\* Every shown value is the integer nearest to its prediction.
ShownNearest(rows, preds) ==
    /\ Len(rows) = Len(preds)
    /\ \A k \in 1..Len(rows) :
          /\ 2 * (rows[k].Predicted * Scale - preds[k]) <= Scale
          /\ 2 * (preds[k] - rows[k].Predicted * Scale) <= Scale

\* C2, amended: the forecast cumulative series is the historical final
\* cumulative value plus the running sum of the rounded predictions (the
\* 'Predicted EV Total' values, each the integer nearest to its prediction).
C2_RoundedStitching ==
    /\ Combined =>
          /\ Continues([k \in 1..Len(forecast_df) |-> forecast_df[k].Cum],
                       SeqSum(df[county].EV),
                       [k \in 1..Len(future_rows) |-> future_rows[k].Predicted * Scale])
          /\ ShownNearest(future_rows, single_log.preds)
    /\ \A k \in 1..Len(cty_log) :
          /\ Continues(ForecastCum(k), SeqSum(df[cty_log[k].County].EV),
                       [j \in 1..Len(cty_log[k].rows) |->
                           cty_log[k].rows[j].Predicted * Scale])
          /\ ShownNearest(cty_log[k].rows, cty_log[k].preds)

C2_Witness ==
    /\ Combined
    /\ Len(cty_log) >= 1
    /\ \E k \in 1..Len(single_log.preds) : single_log.preds[k] % Scale # 0
    /\ SeqSum(df[county].EV) > 0

\* Both windows of a loop hold at most six values.
WindowsTrimmed ==
    /\ Len(historical_ev) <= WindowLen /\ Len(cumulative_ev) <= WindowLen
    /\ Len(hist_ev) <= WindowLen /\ Len(cum_ev) <= WindowLen

C4_ShortHistoryFails ==
    /\ (county # "" /\ Len(df[county].EV) < 3) =>
          /\ pc \in {"forecast", "IndexError"}
          /\ pc = "forecast" => i = 0
          /\ future_rows = << >>
          /\ feature_log = << >> /\ pred_log = << >>
          /\ forecast_df = << >> /\ combined = << >>
    /\ (cty # "" /\ Len(df[cty].EV) < 3) =>
          /\ pc \in {"cty_forecast", "IndexError"}
          /\ pc = "cty_forecast" => i = 0
          /\ future_rows_cty = << >>
          /\ feature_log = << >> /\ pred_log = << >>
          /\ Len(comparison_data) < Len(multi_counties)
          /\ growth_summary = << >>
    /\ \A k \in 1..Len(cty_log) : Len(df[cty_log[k].County].EV) >= 3
    /\ (pc = "IndexError" /\ cty = "") => Len(df[county].EV) < 3
    /\ (pc = "IndexError" /\ cty # "") => Len(df[cty].EV) < 3

C4_Witness ==
    /\ pc = "IndexError"
    /\ cty # ""
    /\ Len(df[cty].EV) = 2
    /\ Len(cty_log) >= 1

\* C5: the one-county loop and its second run, which differ only in the
\* display step applied to the emitted value, hold the same raw window, the
\* same cumulative window and pass the same row to the model at every step;
\* the value last appended to the raw window is the unrounded prediction and
\* the cumulative window grew by it.
C5_RoundingIsolation ==
    /\ alt_ev = historical_ev
    /\ alt_cum = cumulative_ev
    /\ pc = "forecast" => alt_row = row
    /\ (pc = "forecast" /\ i >= 1) =>
          /\ Last(historical_ev) = pred
          /\ Last(cumulative_ev) - cumulative_ev[Len(cumulative_ev) - 1] = pred
    /\ (pc = "cty_forecast" /\ i >= 1) =>
          /\ Last(hist_ev) = pred
          /\ Last(cum_ev) - cum_ev[Len(cum_ev) - 1] = pred

C5_Witness ==
    /\ pc = "forecast"
    /\ i >= 3
    /\ \E k \in 1..(i - 1) : alt_rows[k].Predicted # future_rows[k].Predicted
    /\ alt_row = row

\* The zero policy on one row.
ZeroPolicy(r) ==
    /\ r.ev_total_pct_change_1.den # 0
    /\ r.ev_total_pct_change_3.den # 0
    /\ r.ev_total_lag2 = 0 => r.ev_total_pct_change_1.num = 0
    /\ r.ev_total_lag3 = 0 => r.ev_total_pct_change_3.num = 0
    /\ r.ev_total_lag2 # 0 =>
          r.ev_total_pct_change_1 =
              Frac(r.ev_total_lag1 - r.ev_total_lag2, r.ev_total_lag2)
    /\ r.ev_total_lag3 # 0 =>
          r.ev_total_pct_change_3 =
              Frac(r.ev_total_lag1 - r.ev_total_lag3, r.ev_total_lag3)

\* C6: in every row handed to the model, at every step of either loop,
\* pct_change_1 is exactly 0 when lag2 is 0 and (lag1 - lag2) / lag2
\* otherwise, pct_change_3 likewise against lag3, and no quotient has a zero
\* divisor.
C6_ZeroPolicy ==
    /\ ZeroPolicy(row)
    /\ \A k \in 1..Len(feature_log) : ZeroPolicy(feature_log[k])

C6_Witness ==
    /\ pc = "cty_forecast"
    /\ i >= 3
    /\ row.ev_total_lag2 = 0
    /\ row.ev_total_lag3 # 0
    /\ \E k \in 1..Len(feature_log) :
          feature_log[k].ev_total_lag3 = 0 /\ feature_log[k].ev_total_lag1 # 0

\* The Date and Cumulative EV columns of a combined frame.
DateCum(frame) == [k \in 1..Len(frame) |-> [Date |-> frame[k].Date, Cum |-> frame[k].Cum]]

\* C7: whatever counties are compared and in whatever order, the rows, the
\* predictions, the forecast points and the stitched cumulative series the
\* comparison computes for the county of the selectbox are those the
\* one-county path computed for it.
C7_MultiMatchesSingle ==
    \A k \in 1..Len(cty_log) :
        cty_log[k].County = county =>
            /\ cty_log[k].features = single_log.features
            /\ cty_log[k].preds = single_log.preds
            /\ cty_log[k].rows = future_rows
            /\ DateCum(comparison_data[k]) = DateCum(combined)

C7_Witness ==
    /\ Len(cty_log) = 3
    /\ cty_log[3].County = county
    /\ forecast_horizon >= 2
    /\ model = "trend"

\* The script stops at a failed model.predict with nothing of the step done:
\* windows, recorded points and everything delivered stay as they were.
AbortsClean ==
    pc' = "PredictError" =>
        /\ pc \in {"forecast", "cty_forecast"}
        /\ UNCHANGED <<historical_ev, cumulative_ev, future_rows, pred>>
        /\ UNCHANGED <<hist_ev, cum_ev, future_rows_cty>>
        /\ UNCHANGED <<outcome, comparison_data, growth_summary, cty_log>>

\* After a failed model.predict the windows and points are those of the
\* steps that succeeded, and nothing of the failed county has been delivered.
AbortedState ==
    pc = "PredictError" =>
        /\ Len(pred_log) = i - 1
        /\ cty = "" =>
              /\ Len(future_rows) = i - 1
              /\ i > 1 => Last(historical_ev) = Last(pred_log)
              /\ forecast_df = << >> /\ combined = << >>
        /\ cty # "" =>
              /\ Len(future_rows_cty) = i - 1
              /\ i > 1 => Last(hist_ev) = Last(pred_log)
              /\ \A k \in 1..Len(comparison_data) : comparison_data[k][1].County # cty
              /\ growth_summary = << >>

\* C8: when model.predict fails at step k the script stops there: both
\* windows are as step k-1 left them, no point is recorded for step k, no
\* value stands in for the failed prediction, and no forecast series of that
\* county is delivered.
C8_PredictorFailureAborts == []AbortedState /\ [][AbortsClean]_vars

C8_Witness ==
    /\ pc = "PredictError"
    /\ cty # ""
    /\ Len(future_rows_cty) >= 2
    /\ Len(comparison_data) >= 1

\* The growth entry of line 135 / 224 for a historical and a forecast total.
GrowthAsStated(available, growth, fore, hist) ==
    /\ growth.den # 0
    /\ hist <= 0 => ~available
    /\ hist > 0 => available /\ growth = Frac((fore - hist) * 100, hist)

\* C9: in both paths the growth summary is unavailable when the historical
\* final cumulative value is zero or negative, without a division, and is
\* (forecast final - historical final) / historical final * 100 otherwise.
C9_GrowthSummary ==
    /\ Combined =>
          GrowthAsStated(summary.available, summary.growth_pct,
                         Last(forecast_df).Cum, SeqSum(df[county].EV))
    /\ \A k \in 1..Len(growth_summary) :
          GrowthAsStated(growth_summary[k].available, growth_summary[k].growth,
                         Last(comparison_data[k]).Cum,
                         SeqSum(df[multi_counties[k]].EV))

C9_Witness ==
    /\ pc = "done"
    /\ \E k \in 1..Len(growth_summary) : ~growth_summary[k].available
    /\ \E k \in 1..Len(growth_summary) :
          growth_summary[k].available /\ growth_summary[k].growth.num < 0
    /\ summary.available

\* C10: in the growth summary of the comparison the baseline index
\* len(series) - horizon - 1 of every county is never negative and is the
\* position of the county's last historical row, so the baseline is the
\* county's last historical cumulative value.
C10_BaselineIndex ==
    \A k \in 1..Len(growth_summary) :
        /\ growth_summary[k].County = multi_counties[k]
        /\ growth_summary[k].baseline >= 0
        /\ growth_summary[k].baseline = Len(df[multi_counties[k]].EV) - 1
        /\ growth_summary[k].hist_val = SeqSum(df[multi_counties[k]].EV)

C10_Witness ==
    /\ Len(growth_summary) = 3
    /\ forecast_horizon = ProgramHorizon
    /\ Len(df[multi_counties[1]].EV) > Len(df[multi_counties[2]].EV)
    /\ Len(df[multi_counties[3]].EV) < forecast_horizon

====
